---- MODULE Spec2Model ----
(***************************************************************************)
(* Model of the exercise snippets of the repository:                       *)
(*   - removeDuplicates as defined in problem-2.ts (named intermediates)   *)
(*     and in unnamed/part_001 (chained filter/sort);                      *)
(*   - updateProfile as defined at the end of blog-2.md.                   *)
(*                                                                         *)
(* Arrays and objects live in heaps addressed by references, so that       *)
(* aliasing, copying and in-place mutation are visible.  A JavaScript      *)
(* array is a TLA+ sequence: JavaScript index i is sequence index i + 1,   *)
(* and indexOf's "not found" (-1 in JavaScript) is 0 here.  A value of     *)
(* type number is an integer (negative and multi-digit ones included) or   *)
(* NaN; fractions, the infinities and the sign of zero are not modelled.   *)
(***************************************************************************)
EXTENDS Integers, Sequences, FiniteSets, TLC

VARIABLES
    heap,       \* the arrays: heap[r] is the content of the array referenced by r
    pc,         \* position in the running call of removeDuplicates, "idle" outside
    fn,         \* which definition runs: "named" (problem-2.ts), "chained" (part_001)
    arg,        \* the parameter arr of the running call (a reference), 0 outside
    input,      \* the content the argument array had when the call began
    removeDup,  \* the array returned by filter (a reference), 0 when unset
    sorted,     \* the value returned by sort (a reference), 0 when unset
    calls,      \* the calls that returned: definition, argument, input content, result
    objs,       \* the objects: objs[r] is the content of the object referenced by r
    result      \* the reference returned by updateProfile, 0 before the call

vars == <<heap, pc, fn, arg, input, removeDup, sorted, calls, objs, result>>

arrayVars == <<heap, pc, fn, arg, input, removeDup, sorted, calls>>

objectVars == <<objs, result>>

----------------------------------------------------------------------------
(* Bounds of the model *)

\* longest enumerated input array
MaxLen == 4

\* most arrays ever allocated: the input and one result per call
MaxArrays == 3

\* a value of type number: NaN, or the integer n
NaN == [nan |-> TRUE, v |-> 0]

Num(n) == [nan |-> FALSE, v |-> n]

\* an array literal of integers
Arr(s) == [i \in DOMAIN s |-> Num(s[i])]

\* the numbers of the enumerated inputs: negative, one- and two-digit, and NaN
Values == {Num(-1), Num(2), Num(10), NaN}

\* the inputs the sources and their documentation spell out
Example13 == Arr(<<1, 2, 3, 3, 4, 5, 6, 6, 7, 8, 9, 9, 10>>)

ExampleMultiDigit == Arr(<<10, 2, 33, 4>>)

ExampleSingle == Arr(<<5>>)

SeqsUpTo(S, n) == UNION {[1..k -> S] : k \in 0..n}

Inputs == SeqsUpTo(Values, MaxLen) \cup {Example13, ExampleMultiDigit, ExampleSingle}

Range(s) == {s[i] : i \in DOMAIN s}

----------------------------------------------------------------------------
(* The built-in operations the sources call *)

\* a === b on numbers: NaN equals nothing, itself included
StrictEquals(a, b) == ~a.nan /\ ~b.nan /\ a.v = b.v

\* a - b on numbers: NaN when an operand is NaN
Subtract(a, b) == IF a.nan \/ b.nan THEN NaN ELSE Num(a.v - b.v)

RECURSIVE IndexOfFrom(_, _, _)
IndexOfFrom(s, item, i) ==
    IF i > Len(s) THEN 0
    ELSE IF StrictEquals(s[i], item) THEN i
    ELSE IndexOfFrom(s, item, i + 1)

\* Array.prototype.indexOf: the first index holding item (strict equality), 0 if none
indexOf(s, item) == IndexOfFrom(s, item, 1)

RECURSIVE FilterFrom(_, _, _)
FilterFrom(s, keep, i) ==
    IF i > Len(s) THEN <<>>
    ELSE IF keep[i] THEN <<s[i]>> \o FilterFrom(s, keep, i + 1)
    ELSE FilterFrom(s, keep, i + 1)

\* Array.prototype.filter: a new array of the elements whose callback result
\* keep[i] is true, in order
ArrayFilter(s, keep) == FilterFrom(s, keep, 1)

\* sort's reading of a comparator result: NaN counts as 0
SortCompare(r) == IF r.nan THEN 0 ELSE r.v

RECURSIVE InsertBy(_, _, _)
InsertBy(s, x, cmp) ==
    IF s = <<>> THEN <<x>>
    ELSE IF SortCompare(cmp[Head(s), x]) > 0 THEN <<x>> \o s
    ELSE <<Head(s)>> \o InsertBy(Tail(s), x, cmp)

RECURSIVE SortFrom(_, _, _)
SortFrom(s, cmp, i) ==
    IF i > Len(s) THEN <<>>
    ELSE \* rest: the sorted remainder, evaluated once
         CHOOSE r \in {InsertBy(rest, s[i], cmp) : rest \in {SortFrom(s, cmp, i + 1)}} : TRUE

\* Array.prototype.sort with a comparator: a stable sort placing a before b
\* when cmp[a, b] < 0
ArraySort(s, cmp) == SortFrom(s, cmp, 1)

----------------------------------------------------------------------------
(* The callbacks of removeDuplicates *)

\* variant: the callback written with !== instead of ===
isLaterOccurrence(s, item, index) == indexOf(s, item) # index

\* problem-2.ts, the filter callback: (item, index) => arr.indexOf(item) === index
isFirstOccurrence(s, item, index) == indexOf(s, item) = index

\* unnamed/part_001, the filter callback
isFirstOccurrenceChained(s, item, index) == indexOf(s, item) = index

RECURSIVE Digits(_)
Digits(n) ==
    IF n < 10 THEN <<48 + n>>
    ELSE Digits(n \div 10) \o <<48 + (n % 10)>>

\* the string of a number, as UTF-16 code units
NumberToString(a) ==
    IF a.nan THEN <<78, 97, 78>>
    ELSE IF a.v < 0 THEN <<45>> \o Digits(-a.v)
    ELSE Digits(a.v)

RECURSIVE StringCompare(_, _)
StringCompare(x, y) ==
    IF x = <<>> /\ y = <<>> THEN 0
    ELSE IF x = <<>> THEN -1
    ELSE IF y = <<>> THEN 1
    ELSE IF Head(x) < Head(y) THEN -1
    ELSE IF Head(x) > Head(y) THEN 1
    ELSE StringCompare(Tail(x), Tail(y))

\* variant: sort() called without a comparator, which orders by the strings
compareFnDefault(a, b) == Num(StringCompare(NumberToString(a), NumberToString(b)))

\* variant: the operands of the subtraction swapped
compareFnSwapped(a, b) == Subtract(b, a)

\* problem-2.ts, the comparator: (a, b) => a - b
compareFn(a, b) == Subtract(a, b)

\* unnamed/part_001, the comparator
compareFnChained(a, b) == Subtract(a, b)

----------------------------------------------------------------------------
(* removeDuplicates: one action per statement *)

\* the state before any call: the caller holds one array
Init ==
    /\ \E S \in Inputs : heap = <<S>>
    /\ pc = "idle"
    /\ fn = "none"
    /\ arg = 0
    /\ input = <<>>
    /\ removeDup = 0
    /\ sorted = 0
    /\ calls = <<>>
    /\ objs = <<>>
    /\ result = 0

\* a caller invokes one of the two definitions on an array it holds: the input
\* or the result of an earlier call
Call(f, a) ==
    /\ pc = "idle"
    /\ Len(heap) < MaxArrays
    /\ a \in DOMAIN heap
    /\ fn' = f
    /\ arg' = a
    /\ input' = heap[a]
    /\ pc' = IF f = "named" THEN "filter" ELSE "chainedFilter"
    /\ UNCHANGED <<heap, removeDup, sorted, calls, objectVars>>

\* problem-2.ts line 2: const removeDup = arr.filter(...)
FilterStep ==
    /\ pc = "filter"
    /\ LET arr == heap[arg]
           keep == [i \in 1..Len(arr) |-> isFirstOccurrence(arr, arr[i], i)]
       IN  heap' = Append(heap, ArrayFilter(arr, keep))
    /\ removeDup' = Len(heap) + 1
    /\ pc' = "sort"
    /\ UNCHANGED <<fn, arg, input, sorted, calls, objectVars>>

\* variant: the sort applied to the parameter instead of the filtered copy
SortStepOnArg ==
    /\ pc = "sort"
    /\ LET a == heap[arg]
           cmp == [x \in Range(a), y \in Range(a) |-> compareFn(x, y)]
       IN  heap' = [heap EXCEPT ![arg] = ArraySort(a, cmp)]
    /\ sorted' = arg
    /\ pc' = "return"
    /\ UNCHANGED <<fn, arg, input, removeDup, calls, objectVars>>

\* problem-2.ts line 3: const sorted = removeDup.sort(...), in place: sorted is
\* the same array as removeDup
SortStep ==
    /\ pc = "sort"
    /\ LET a == heap[removeDup]
           cmp == [x \in Range(a), y \in Range(a) |-> compareFn(x, y)]
       IN  heap' = [heap EXCEPT ![removeDup] = ArraySort(a, cmp)]
    /\ sorted' = removeDup
    /\ pc' = "return"
    /\ UNCHANGED <<fn, arg, input, removeDup, calls, objectVars>>

\* the end of a call: the caller receives ret, the locals are gone
Returned(ret) ==
    /\ calls' = Append(calls, [fn |-> fn, arg |-> arg, input |-> input, ret |-> ret])
    /\ pc' = "idle"
    /\ fn' = "none"
    /\ arg' = 0
    /\ input' = <<>>
    /\ removeDup' = 0
    /\ sorted' = 0

\* variant: the body ends without a return statement, the caller gets undefined
ReturnStepNoValue ==
    /\ pc = "return"
    /\ Returned(0)
    /\ UNCHANGED <<heap, objectVars>>

\* problem-2.ts line 4: return sorted
ReturnStep ==
    /\ pc = "return"
    /\ Returned(sorted)
    /\ UNCHANGED <<heap, objectVars>>

\* unnamed/part_001 line 3: arr.filter(...), the receiver of the chained sort
ChainedFilterStep ==
    /\ pc = "chainedFilter"
    /\ LET arr == heap[arg]
           keep == [i \in 1..Len(arr) |-> isFirstOccurrenceChained(arr, arr[i], i)]
       IN  heap' = Append(heap, ArrayFilter(arr, keep))
    /\ removeDup' = Len(heap) + 1
    /\ pc' = "chainedSort"
    /\ UNCHANGED <<fn, arg, input, sorted, calls, objectVars>>

\* unnamed/part_001 lines 2 and 4: return <filtered>.sort(...)
ChainedSortReturnStep ==
    /\ pc = "chainedSort"
    /\ LET a == heap[removeDup]
           cmp == [x \in Range(a), y \in Range(a) |-> compareFnChained(x, y)]
       IN  heap' = [heap EXCEPT ![removeDup] = ArraySort(a, cmp)]
    /\ Returned(removeDup)
    /\ UNCHANGED objectVars

Next ==
    \/ \E f \in {"named", "chained"}, a \in 1..MaxArrays : Call(f, a)
    \/ FilterStep
    \/ SortStep
    \/ ReturnStep
    \/ ChainedFilterStep
    \/ ChainedSortReturnStep

Spec == Init /\ [][Next]_vars

\* the next statement of a call that began
Step ==
    \/ FilterStep
    \/ SortStep
    \/ ReturnStep
    \/ ChainedFilterStep
    \/ ChainedSortReturnStep

\* a call runs to completion: the code is synchronous, so the next statement
\* of a started call is always executed
FairSpec == Spec /\ WF_vars(Step)

----------------------------------------------------------------------------
(* updateProfile *)

Keys == {"name", "age", "email"}

Str(s) == [type |-> "string", str |-> s]

Number(n) == [type |-> "number", num |-> n]

Undefined == [type |-> "undefined"]

\* interface Profile: every key present, with a value of its type
Profile ==
    {[name |-> Str(n), age |-> Number(a), email |-> Str(e)] :
        n \in {"Ann", "Bob"}, a \in {25, 30}, e \in {"a@x.io", "b@x.io"}}

KeyValues(k) ==
    IF k = "age" THEN {Number(30), Number(41)}
    ELSE IF k = "name" THEN {Str("Bob"), Str("Cy")}
    ELSE {Str("b@x.io"), Str("c@x.io")}

\* type PartialProfile = Partial<Profile>: any subset of the keys; a present
\* key holds a value of its type or undefined
PartialProfile ==
    LET all == [name : KeyValues("name") \cup {Undefined},
                age : KeyValues("age") \cup {Undefined},
                email : KeyValues("email") \cup {Undefined}]
    IN  {[k \in K |-> u[k]] : u \in all, K \in SUBSET Keys}

\* the parameters of updateProfile, as references into objs
profile == 1

updates == 2

\* {...source} onto target: target's properties, then source's own properties,
\* a later one replacing an earlier one of the same key
ObjectSpread(target, source) ==
    [k \in DOMAIN target \cup DOMAIN source |->
        IF k \in DOMAIN source THEN source[k] ELSE target[k]]

InitProfile ==
    /\ \E p \in Profile, u \in PartialProfile : objs = <<p, u>>
    /\ result = 0
    /\ heap = <<>>
    /\ pc = "idle"
    /\ fn = "none"
    /\ arg = 0
    /\ input = <<>>
    /\ removeDup = 0
    /\ sorted = 0
    /\ calls = <<>>

\* variant: Object.assign(profile, updates), which writes into profile
UpdateProfileAssign ==
    /\ result = 0
    /\ objs' = [objs EXCEPT ![profile] = ObjectSpread(objs[profile], objs[updates])]
    /\ result' = profile
    /\ UNCHANGED arrayVars

\* blog-2.md line 177: return { ...profile, ...updates }
UpdateProfile ==
    /\ result = 0
    /\ objs' = Append(objs, ObjectSpread(ObjectSpread(<<>>, objs[profile]), objs[updates]))
    /\ result' = Len(objs) + 1
    /\ UNCHANGED arrayVars

NextProfile == UpdateProfile

SpecProfile == InitProfile /\ [][NextProfile]_vars

----------------------------------------------------------------------------
(* The claims about removeDuplicates.  A claim about "every call" is stated *)
(* over calls, the record of the calls that returned.                       *)

Returns == Range(calls)

\* the array a call returned
Out(c) == heap[c.ret]

\* a <= b on numbers: false when an operand is NaN
LessEq(a, b) == ~a.nan /\ ~b.nan /\ a.v <= b.v

\* a < b on numbers: false when an operand is NaN
Less(a, b) == ~a.nan /\ ~b.nan /\ a.v < b.v

\* the indices of s whose value occurs at no earlier index
FirstIndices(s) == {i \in DOMAIN s : \A j \in 1..(i - 1) : s[j] # s[i]}

\* the first occurrence of each distinct value of s, in the order of s
FirstOccurrences(s) ==
    LET F == FirstIndices(s)
    IN  [k \in 1..Cardinality(F) |->
            s[CHOOSE i \in F : Cardinality({j \in F : j < i}) = k - 1]]

\* C1: the values of the output of every call are exactly the values of its
\* input: nothing is invented and no distinct value is lost.
C1_SameValues == \A c \in Returns : Range(Out(c)) = Range(c.input)

\* C2: the output of every call holds each distinct value of the input exactly
\* once: it is strictly increasing, as long as the input has distinct values,
\* and the 13-element example gives 1 to 10.
C2_EachDistinctValueOnce ==
    \A c \in Returns :
        LET o == Out(c)
        IN  /\ \A i, j \in DOMAIN o : i < j => Less(o[i], o[j])
            /\ Len(o) = Cardinality(Range(c.input))
            /\ c.input = Example13 => o = Arr(<<1, 2, 3, 4, 5, 6, 7, 8, 9, 10>>)

\* C3: the output of every call is in ascending numeric order, a <= b for
\* every adjacent pair, and [10, 2, 33, 4] gives [2, 4, 10, 33].
C3_SortedAscending ==
    \A c \in Returns :
        LET o == Out(c)
        IN  /\ \A i \in 1..(Len(o) - 1) : LessEq(o[i], o[i + 1])
            /\ c.input = ExampleMultiDigit => o = Arr(<<2, 4, 10, 33>>)

C3_Witness ==
    \E c \in Returns :
        /\ c.input = ExampleMultiDigit
        /\ Out(c) = Arr(<<2, 4, 10, 33>>)
        /\ \E d \in Returns :
              d.input = ExampleMultiDigit /\ d.fn # c.fn /\ Len(Out(d)) = 4

\* C4: a call leaves its argument array as it found it: the same length and
\* the same elements in the same order, while the call runs and after it
\* returned.
C4_InputNotMutated ==
    /\ pc # "idle" => heap[arg] = input
    /\ \A c \in Returns : heap[c.arg] = c.input

C4_Witness ==
    \E c \in Returns :
        /\ c.fn = "named"
        /\ c.input = Arr(<<10, 2, 10, -1>>)
        /\ heap[c.arg] = c.input
        /\ Out(c) = Arr(<<-1, 2, 10>>)
        /\ c.ret # c.arg

\* C5: a call on the output of an earlier call returns an array equal to
\* that output, element for element.
C5_Idempotent ==
    \A c1, c2 \in Returns : c2.arg = c1.ret => Out(c2) = Out(c1)

C5_Witness ==
    \E c1, c2 \in Returns :
        /\ c1.fn = "named" /\ c2.fn = "named"
        /\ c1.input = Arr(<<2, -1, 2, 10>>)
        /\ c2.arg = c1.ret
        /\ c2.ret # c1.ret
        /\ Out(c2) = Arr(<<-1, 2, 10>>)

\* C6: the empty input gives the empty output, a one-element input [x] gives
\* [x], and n >= 1 copies of one value x give [x].
C6_EdgeCases ==
    \A c \in Returns :
        /\ c.input = <<>> => Out(c) = <<>>
        /\ Len(c.input) = 1 => Out(c) = c.input
        /\ (c.input # <<>> /\ \A i \in DOMAIN c.input : c.input[i] = c.input[1])
              => Out(c) = <<c.input[1]>>

\* C7: every call that began returns, and what it returns is an array.
C7_Terminates ==
    (pc # "idle") ~>
        (pc = "idle" /\ calls # <<>> /\ calls[Len(calls)].ret \in DOMAIN heap)

C7_Witness ==
    /\ pc = "idle"
    /\ Len(calls) = 2
    /\ calls[1].fn = "named" /\ calls[2].fn = "chained"
    /\ calls[1].input = Example13
    /\ calls[2].input = Example13
    /\ \A k \in 1..2 : calls[k].ret \in DOMAIN heap

\* C8: between the filter and the sort, the intermediate array holds the
\* first occurrence of each distinct value of the input, in the input's
\* order, and nothing else.
C8_FilterKeepsFirstOccurrences ==
    pc \in {"sort", "chainedSort"} => heap[removeDup] = FirstOccurrences(input)

\* C9: the two definitions return equal arrays, element for element, for
\* equal inputs.
C9_DefinitionsAgree ==
    \A c1, c2 \in Returns :
        (c1.fn # c2.fn /\ c1.input = c2.input) => Out(c1) = Out(c2)

C9_Witness ==
    \E c1, c2 \in Returns :
        /\ c1.fn = "named" /\ c2.fn = "chained"
        /\ c1.input = Arr(<<10, -1, 10, 2>>)
        /\ c2.input = c1.input
        /\ c1.ret # c2.ret
        /\ Out(c2) = Arr(<<-1, 2, 10>>)

----------------------------------------------------------------------------
(* The claim about updateProfile *)

\* C10: the call returns a new object whose name, age and email are those of
\* updates where updates has the key and those of profile otherwise, and it
\* changes neither profile nor updates.
C10_UpdateProfileMerges ==
    [][result' # result =>
          /\ result' \notin {profile, updates}
          /\ result' \in DOMAIN objs'
          /\ objs'[profile] = objs[profile]
          /\ objs'[updates] = objs[updates]
          /\ DOMAIN objs'[result'] = Keys
          /\ \A k \in Keys :
                objs'[result'][k] =
                    IF k \in DOMAIN objs[updates] THEN objs[updates][k]
                    ELSE objs[profile][k]]_vars

C10_Witness ==
    /\ result = 3
    /\ DOMAIN objs[updates] = {"age", "email"}
    /\ objs[updates]["age"] = Number(41)
    /\ objs[updates]["email"] = Undefined
    /\ objs[profile]["age"] = Number(25)
    /\ objs[result] =
          [name |-> objs[profile]["name"], age |-> Number(41), email |-> Undefined]

====
